---- MODULE Spec2Model ----
(***************************************************************************)
(* Model of the inference-and-reasoning pipeline:                          *)
(*   reasoning_agent.py : fence stripping, JSON parse with fallback,       *)
(*                        schema coercion and minimum-cardinality backfill *)
(*   full_pipeline.py   : classify_video (majority vote) and main (the     *)
(*                        roster loop followed by temporal reasoning)      *)
(*                                                                         *)
(* Python values are tagged records, so that isinstance() is a test of the *)
(* tag:  None, str, int, bool, list, dict.  A response text is a sequence  *)
(* of lexical tokens; json.loads is a recursive-descent parser over it.    *)
(***************************************************************************)
EXTENDS Integers, Sequences, FiniteSets, TLC

VARIABLES
    raw,             \* response.choices[0].message.content of the latest call
    call,            \* "none" | "single" | "temporal": which reasoning function ran
    content,         \* the fence-stripped text handed to json.loads
    data,            \* the value handed to the normalizer
    result,          \* the value the reasoning function returned
    stage,           \* "idle" | "received" | "returned" | "raised"
    pc,              \* position of main(): "off","loop","reason","temporal","final","done","crashed"
    idx,             \* index into Actions of the roster action being processed
    pose_store,      \* per roster action: "absent" | "empty" | "frames"
    frame_preds,     \* model.predict() of the clip inside classify_video (a local: empty outside)
    predicted_label, \* classify_video's label of the latest clip (PyNone when skipped)
    frame_counts,    \* classify_video's count_dict of the latest clip
    action_history,  \* main's action_history
    requests,        \* reasoning requests issued so far, in order
    stdout,          \* what main has printed so far, in order
    keypoints,       \* keypoints_to_vector's argument: PyNone or a list of [x, y, confidence]
    dim,             \* keypoints_to_vector's argument dim
    feature_vec      \* the vector keypoints_to_vector returned

normVars == <<raw, call, content, data, result, stage>>
pipeVars == <<pc, idx, pose_store, frame_preds, predicted_label, frame_counts,
              action_history, requests, stdout>>
encVars == <<keypoints, dim, feature_vec>>
vars == <<raw, call, content, data, result, stage, pc, idx, pose_store, frame_preds,
          predicted_label, frame_counts, action_history, requests, stdout,
          keypoints, dim, feature_vec>>

Min(a, b) == IF a < b THEN a ELSE b

(***************************************************************************)
(* Python values                                                           *)
(***************************************************************************)
PyNone == [t |-> "none"]
PyStr(s) == [t |-> "str", s |-> s]
\* a str holding a response text (a token sequence); the empty text is "" and a
\* text of one bare word is that word
PyText(toks) ==
    IF toks = <<>> THEN PyStr("")
    ELSE IF Len(toks) = 1 /\ toks[1].k = "word" THEN PyStr(toks[1].w)
    ELSE [t |-> "str", text |-> toks]
\* the str that repr() gives for a container
PyRepr(x) == [t |-> "str", repr |-> x]
PyInt(n) == [t |-> "int", n |-> n]
PyBool(b) == [t |-> "bool", b |-> b]
PyList(l) == [t |-> "list", l |-> l]
PyDict(d) == [t |-> "dict", d |-> d]
\* a raised exception, propagating out of the expression that met it
PyExc(e) == [t |-> "exc", e |-> e]

EmptyDict == PyDict(<<>>)
EmptyList == PyList(<<>>)

\* str(x)
str(x) ==
    CASE x.t = "str" -> x
      [] x.t = "int" -> PyStr(ToString(x.n))
      [] x.t = "bool" -> PyStr(IF x.b THEN "True" ELSE "False")
      [] x.t = "none" -> PyStr("None")
      [] OTHER -> PyRepr(x)

\* x.get(k, dflt): an AttributeError unless x is a dict
get(x, k, dflt) ==
    IF x.t # "dict" THEN PyExc("AttributeError")
    ELSE IF k \in DOMAIN x.d THEN x.d[k] ELSE dflt

\* (a + b)[:n] on lists
Concat(a, b) == PyList(a.l \o b.l)
Slice(a, n) == PyList(SubSeq(a.l, 1, Min(n, Len(a.l))))

(***************************************************************************)
(* Response texts: token sequences                                         *)
(***************************************************************************)
Tok(k) == [k |-> k]
TokStr(s) == [k |-> "string", s |-> s]
TokNum(n) == [k |-> "number", n |-> n]
TokWord(w) == [k |-> "word", w |-> w]
WS == Tok("ws")
FENCE == Tok("fence")          \* three backticks

\* str.lower() on the words of the token alphabet
Lower(w) == IF w = "JSON" THEN "json" ELSE w

RECURSIVE LStrip(_, _)
LStrip(t, k) == IF t # <<>> /\ Head(t).k = k THEN LStrip(Tail(t), k) ELSE t
RECURSIVE RStrip(_, _)
RStrip(t, k) ==
    IF t # <<>> /\ t[Len(t)].k = k THEN RStrip(SubSeq(t, 1, Len(t) - 1), k) ELSE t
\* str.strip() / str.strip("`")
Strip(t, k) == RStrip(LStrip(t, k), k)

_strip_code_fences(text) ==
    LET t == Strip(text, "ws") IN
    IF t # <<>> /\ Head(t).k = "fence"
    THEN LET u == Strip(Strip(t, "fence"), "ws") IN
         IF u # <<>> /\ Head(u).k = "word" /\ Lower(Head(u).w) = "json"
         THEN Strip(Tail(u), "ws")
         ELSE u
    ELSE t

(***************************************************************************)
(* json.loads: recursive descent over the tokens                           *)
(***************************************************************************)
RECURSIVE SkipWs(_, _)
SkipWs(t, p) == IF p <= Len(t) /\ t[p].k = "ws" THEN SkipWs(t, p + 1) ELSE p

ParseFail(p) == [ok |-> FALSE, val |-> PyNone, next |-> p]
ParseOk(v, p) == [ok |-> TRUE, val |-> v, next |-> p]

RECURSIVE ParseValue(_, _)
RECURSIVE ParseElems(_, _, _)
RECURSIVE ParseMembers(_, _, _)

\* after "[" and at least zero elements: expects a value, then "," or "]"
ParseElems(t, p0, acc) ==
    LET r == ParseValue(t, p0) IN
    IF ~r.ok THEN ParseFail(p0)
    ELSE LET p == SkipWs(t, r.next) IN
         IF p > Len(t) THEN ParseFail(p)
         ELSE IF t[p].k = "rbrack" THEN ParseOk(PyList(Append(acc, r.val)), p + 1)
         ELSE IF t[p].k = "comma" THEN ParseElems(t, p + 1, Append(acc, r.val))
         ELSE ParseFail(p)

\* after "{": expects "key": value, then "," or "}"; a repeated key keeps the last
ParseMembers(t, p0, acc) ==
    LET p == SkipWs(t, p0) IN
    IF p > Len(t) \/ t[p].k # "string" THEN ParseFail(p)
    ELSE LET q == SkipWs(t, p + 1) IN
         IF q > Len(t) \/ t[q].k # "colon" THEN ParseFail(q)
         ELSE LET r == ParseValue(t, q + 1) IN
              IF ~r.ok THEN ParseFail(q)
              ELSE LET key == t[p].s
                       d == [x \in DOMAIN acc \cup {key} |->
                                IF x = key THEN r.val ELSE acc[x]]
                       e == SkipWs(t, r.next)
                   IN IF e > Len(t) THEN ParseFail(e)
                      ELSE IF t[e].k = "rbrace" THEN ParseOk(PyDict(d), e + 1)
                      ELSE IF t[e].k = "comma" THEN ParseMembers(t, e + 1, d)
                      ELSE ParseFail(e)

ParseValue(t, p0) ==
    LET p == SkipWs(t, p0) IN
    IF p > Len(t) THEN ParseFail(p)
    ELSE CASE t[p].k = "string" -> ParseOk(PyStr(t[p].s), p + 1)
           [] t[p].k = "number" -> ParseOk(PyInt(t[p].n), p + 1)
           [] t[p].k = "null" -> ParseOk(PyNone, p + 1)
           [] t[p].k = "true" -> ParseOk(PyBool(TRUE), p + 1)
           [] t[p].k = "false" -> ParseOk(PyBool(FALSE), p + 1)
           [] t[p].k = "lbrack" ->
                LET q == SkipWs(t, p + 1) IN
                IF q <= Len(t) /\ t[q].k = "rbrack" THEN ParseOk(EmptyList, q + 1)
                ELSE ParseElems(t, p + 1, <<>>)
           [] t[p].k = "lbrace" ->
                LET q == SkipWs(t, p + 1) IN
                IF q <= Len(t) /\ t[q].k = "rbrace" THEN ParseOk(EmptyDict, q + 1)
                ELSE ParseMembers(t, p + 1, <<>>)
           [] OTHER -> ParseFail(p)

\* json.loads(text): the value, or JSONDecodeError (also on extra data after it)
json_loads(text) ==
    LET r == ParseValue(text, 1) IN
    IF r.ok /\ SkipWs(text, r.next) = Len(text) + 1 THEN r.val
    ELSE PyExc("JSONDecodeError")

(***************************************************************************)
(* Schema coercion and backfill (reasoning_agent.py)                       *)
(***************************************************************************)
StringKeys == <<"intent", "next_step", "explanation", "agent_state", "task_goal",
                "current_step">>
ListKeys == <<"affordances", "constraints", "future_steps", "target_objects">>
SingleKeys == {"intent", "next_step", "explanation", "environment", "agent_state",
               "affordances", "constraints", "task_goal", "current_step",
               "future_steps", "target_objects"}
EnvKeys == {"scene_type", "key_objects"}
TemporalKeys == {"overall_task", "step_roles", "possible_goal", "future_plan",
                 "uncertainty_notes"}

SeqRange(s) == {s[i] : i \in DOMAIN s}

\* [str(i) for i in x if i is not None], or [] when x is no list
_ensure_list_of_str(x) ==
    IF x.t # "list" THEN EmptyList
    ELSE LET kept == SelectSeq(x.l, LAMBDA i : i.t # "none")
         IN PyList([j \in DOMAIN kept |-> str(kept[j])])

_ensure_str(x) == IF x.t = "none" THEN PyStr("") ELSE str(x)

\* the isinstance guard left out
as_dict_unguarded(x) == x

\* "if not isinstance(data, dict): data = {}"
as_dict(x) == IF x.t # "dict" THEN EmptyDict ELSE x

CannedAffordances ==
    PyList(<<PyStr("approach relevant object safely"),
             PyStr("grasp/manipulate the object"),
             PyStr("move to the next location or step")>>)
CannedConstraints ==
    PyList(<<PyStr("avoid collisions with people/objects"),
             PyStr("ensure stable footing and safe motion")>>)
CannedFutureSteps ==
    PyList(<<PyStr("complete the immediate subtask"),
             PyStr("transition to the next goal-oriented action")>>)
CannedTargets == PyList(<<PyStr("relevant object"), PyStr("destination")>>)

\* canned strings appended only up to the minimum of 3
BackfillAffordances_toMinimum(xs) ==
    IF Len(xs.l) < 3 THEN Slice(Concat(xs, CannedAffordances), 3) ELSE xs

BackfillAffordances(xs) ==
    IF Len(xs.l) < 3 THEN Slice(Concat(xs, CannedAffordances), 5) ELSE xs

\* canned strings put ahead of the response's own entries
BackfillConstraints_cannedFirst(xs) ==
    IF Len(xs.l) < 2 THEN Slice(Concat(CannedConstraints, xs), 4) ELSE xs

BackfillConstraints(xs) ==
    IF Len(xs.l) < 2 THEN Slice(Concat(xs, CannedConstraints), 4) ELSE xs

BackfillFutureSteps(xs) ==
    IF Len(xs.l) < 2 THEN Slice(Concat(xs, CannedFutureSteps), 4) ELSE xs

BackfillTargetObjects(xs, candidates) ==
    IF Len(xs.l) < 2
    THEN IF candidates.l # <<>>
         THEN Slice(Concat(xs, candidates), 4)
         ELSE Slice(Concat(xs, CannedTargets), 4)
    ELSE xs

_normalize_single_action_json(data0) ==
    LET d == as_dict(data0)
        probe == get(d, "intent", PyStr(""))
        env == as_dict(get(d, "environment", EmptyDict))
        envProbe == get(env, "scene_type", PyStr(""))
    IN  IF probe.t = "exc" THEN probe
        ELSE IF envProbe.t = "exc" THEN envProbe
        ELSE LET key_objects == _ensure_list_of_str(get(env, "key_objects", EmptyList))
             IN PyDict(
                [intent |-> _ensure_str(get(d, "intent", PyStr(""))),
                 next_step |-> _ensure_str(get(d, "next_step", PyStr(""))),
                 explanation |-> _ensure_str(get(d, "explanation", PyStr(""))),
                 environment |-> PyDict(
                    [scene_type |-> _ensure_str(get(env, "scene_type", PyStr(""))),
                     key_objects |-> key_objects]),
                 agent_state |-> _ensure_str(get(d, "agent_state", PyStr(""))),
                 affordances |-> BackfillAffordances(
                    _ensure_list_of_str(get(d, "affordances", EmptyList))),
                 constraints |-> BackfillConstraints(
                    _ensure_list_of_str(get(d, "constraints", EmptyList))),
                 task_goal |-> _ensure_str(get(d, "task_goal", PyStr(""))),
                 current_step |-> _ensure_str(get(d, "current_step", PyStr(""))),
                 future_steps |-> BackfillFutureSteps(
                    _ensure_list_of_str(get(d, "future_steps", EmptyList))),
                 target_objects |-> BackfillTargetObjects(
                    _ensure_list_of_str(get(d, "target_objects", EmptyList)),
                    key_objects)])

_normalize_temporal_json(data0) ==
    LET d == as_dict(data0)
        probe == get(d, "overall_task", PyStr(""))
    IN  IF probe.t = "exc" THEN probe
        ELSE PyDict(
            [overall_task |-> _ensure_str(get(d, "overall_task", PyStr(""))),
             step_roles |-> _ensure_list_of_str(get(d, "step_roles", EmptyList)),
             possible_goal |-> _ensure_str(get(d, "possible_goal", PyStr(""))),
             future_plan |-> _ensure_list_of_str(get(d, "future_plan", EmptyList)),
             uncertainty_notes |->
                _ensure_list_of_str(get(d, "uncertainty_notes", EmptyList))])

\* "response.choices[0].message.content or ''"
ContentOrEmpty(r) ==
    IF r.t = "none" THEN <<>>
    ELSE IF "s" \in DOMAIN r THEN (IF r.s = "" THEN <<>> ELSE <<TokWord(r.s)>>)
    ELSE r.text

\* the raw text left out of the placeholder
SingleFallback_dropsText(text) == _normalize_single_action_json(EmptyDict)

\* the except-branch placeholders
SingleFallback(text) ==
    PyDict([intent |-> PyStr(""), next_step |-> PyStr(""),
            explanation |-> PyText(text),
            environment |-> PyDict([scene_type |-> PyStr(""), key_objects |-> EmptyList]),
            agent_state |-> PyStr(""), affordances |-> EmptyList,
            constraints |-> EmptyList, task_goal |-> PyStr(""),
            current_step |-> PyStr(""), future_steps |-> EmptyList,
            target_objects |-> EmptyList])

\* the raw text left out of the placeholder
TemporalFallback_dropsText(text) == _normalize_temporal_json(EmptyDict)

TemporalFallback(text) ==
    PyDict([overall_task |-> PyStr(""), step_roles |-> EmptyList,
            possible_goal |-> PyStr(""), future_plan |-> EmptyList,
            uncertainty_notes |-> PyList(<<PyText(text)>>)])

\* try: data = json.loads(content) / except json.JSONDecodeError: data = placeholder
LoadOrFallback(text, fallback) ==
    LET v == json_loads(text) IN IF v.t = "exc" THEN fallback ELSE v

SingleData(r) ==
    LET c == _strip_code_fences(ContentOrEmpty(r)) IN LoadOrFallback(c, SingleFallback(c))

TemporalData(r) ==
    LET c == _strip_code_fences(ContentOrEmpty(r)) IN LoadOrFallback(c, TemporalFallback(c))

\* what llm_reasoning / llm_temporal_reasoning return for the response r
normalizeSingle(r) == _normalize_single_action_json(SingleData(r))
normalizeTemporal(r) == _normalize_temporal_json(TemporalData(r))

(***************************************************************************)
(* The responses the transport may hand back (bounded)                     *)
(***************************************************************************)
MaxList == 6       \* longest list a response carries in one field
MaxTargets == 3    \* longest target_objects list paired with every key_objects list

\* the order json text lists an object's keys in
KeyOrder == <<"intent", "next_step", "explanation", "environment", "scene_type",
              "key_objects", "agent_state", "affordances", "constraints", "task_goal",
              "current_step", "future_steps", "target_objects", "overall_task",
              "step_roles", "possible_goal", "future_plan", "uncertainty_notes">>

RECURSIVE Ser(_)
RECURSIVE SerList(_, _)
RECURSIVE SerDict(_, _, _)
\* the elements of l from position i on, comma separated
SerList(l, i) ==
    IF i > Len(l) THEN <<>>
    ELSE (IF i > 1 THEN <<Tok("comma"), WS>> ELSE <<>>) \o Ser(l[i]) \o SerList(l, i + 1)
\* the members of d whose keys are KeyOrder[i..], comma separated
SerDict(d, i, first) ==
    IF i > Len(KeyOrder) THEN <<>>
    ELSE IF KeyOrder[i] \in DOMAIN d
         THEN (IF first THEN <<>> ELSE <<Tok("comma"), WS>>)
              \o <<TokStr(KeyOrder[i]), Tok("colon"), WS>> \o Ser(d[KeyOrder[i]])
              \o SerDict(d, i + 1, FALSE)
         ELSE SerDict(d, i + 1, first)
\* the json text of a value
Ser(x) ==
    CASE x.t = "str" -> <<TokStr(x.s)>>
      [] x.t = "int" -> <<TokNum(x.n)>>
      [] x.t = "none" -> <<Tok("null")>>
      [] x.t = "bool" -> <<Tok(IF x.b THEN "true" ELSE "false")>>
      [] x.t = "list" -> <<Tok("lbrack")>> \o SerList(x.l, 1) \o <<Tok("rbrack")>>
      [] x.t = "dict" -> <<Tok("lbrace")>> \o SerDict(x.d, 1, TRUE) \o <<Tok("rbrace")>>

\* ["<prefix>1", ..., "<prefix>n"]
StrList(prefix, n) == PyList([i \in 1..n |-> PyStr(prefix \o ToString(i))])

OddEntries == {PyNone, PyInt(7), PyBool(TRUE)}
\* the values a list field may carry: lists of strings, lists with one entry that is
\* no string, and values that are no list
ListVariants(prefix) ==
    {StrList(prefix, n) : n \in 0..MaxList}
    \cup UNION {{PyList([StrList(prefix, n).l EXCEPT ![p] = e]) :
                    p \in 1..n, e \in OddEntries} : n \in 1..MaxList}
    \cup {PyStr("oops"), PyNone, PyInt(3), EmptyDict}

StrVariants ==
    {PyStr("text"), PyStr(""), PyNone, PyInt(7), PyBool(FALSE),
     PyList(<<PyStr("a")>>), EmptyDict}

EnvVariants ==
    {PyStr("kitchen"), PyNone, EmptyList, PyInt(1), EmptyDict}
    \cup {PyDict([scene_type |-> v]) : v \in StrVariants}
    \cup {PyDict([key_objects |-> v]) : v \in ListVariants("obj")}
    \cup {PyDict([scene_type |-> PyStr("office"), key_objects |-> v]) :
            v \in ListVariants("obj")}

WellFormedSingle ==
    PyDict([intent |-> PyStr("enter the room"), next_step |-> PyStr("walk in"),
            explanation |-> PyStr("The person opens a door."),
            environment |-> PyDict([scene_type |-> PyStr("office"),
                                    key_objects |-> StrList("obj", 2)]),
            agent_state |-> PyStr("standing"), affordances |-> StrList("affordances", 4),
            constraints |-> StrList("constraints", 3), task_goal |-> PyStr("enter"),
            current_step |-> PyStr("open"), future_steps |-> StrList("future_steps", 3),
            target_objects |-> StrList("target_objects", 2)])

WellFormedTemporal ==
    PyDict([overall_task |-> PyStr("make tea"), step_roles |-> StrList("role", 2),
            possible_goal |-> PyStr("drink"), future_plan |-> StrList("plan", 2),
            uncertainty_notes |-> StrList("note", 1)])

\* the dict d with key k set to v
With(d, k, v) ==
    PyDict([x \in DOMAIN d.d \cup {k} |-> IF x = k THEN v ELSE d.d[x]])
\* the dict d without key k
Without(d, k) == PyDict([x \in DOMAIN d.d \ {k} |-> d.d[x]])

FieldVariants(k) ==
    IF k = "environment" THEN EnvVariants
    ELSE IF k \in SeqRange(StringKeys) \cup {"overall_task", "possible_goal"}
    THEN StrVariants
    ELSE ListVariants(k)

\* a base object with one key removed or given any value of its field's variants,
\* and target_objects paired with every key_objects
SingleObjects ==
    LET bases == {EmptyDict, WellFormedSingle} IN
    bases
    \cup UNION {{With(b, k, v) : v \in FieldVariants(k)} : b \in bases, k \in SingleKeys}
    \cup {Without(WellFormedSingle, k) : k \in SingleKeys}
    \cup {With(With(b, "target_objects", StrList("tgt", n)), "environment",
               PyDict([key_objects |-> StrList("obj", m)])) :
            b \in bases, n \in 0..MaxTargets, m \in 0..MaxList}

TemporalObjects ==
    LET bases == {EmptyDict, WellFormedTemporal} IN
    bases
    \cup UNION {{With(b, k, v) : v \in FieldVariants(k)} : b \in bases, k \in TemporalKeys}
    \cup {Without(WellFormedTemporal, k) : k \in TemporalKeys}

\* json values that are no object
NonObjects ==
    {EmptyList, PyList(<<PyInt(1), PyStr("a")>>), PyInt(42), PyStr("hello"), PyNone,
     PyBool(TRUE)}

Forms == {"plain", "padded", "fenced", "fenced_json", "fenced_JSON", "open_fence",
          "truncated", "prose", "extra"}

\* the text a response of the given form carries around the json text j
Wrap(form, j) ==
    CASE form = "plain" -> j
      [] form = "padded" -> <<WS>> \o j \o <<WS, WS>>
      [] form = "fenced" -> <<FENCE, WS>> \o j \o <<WS, FENCE>>
      [] form = "fenced_json" -> <<FENCE, TokWord("json"), WS>> \o j \o <<WS, FENCE, WS>>
      [] form = "fenced_JSON" -> <<WS, FENCE, TokWord("JSON"), WS>> \o j \o <<WS, FENCE>>
      [] form = "open_fence" -> <<FENCE, TokWord("json"), WS>> \o j
      [] form = "truncated" -> SubSeq(j, 1, Len(j) - 1)
      [] form = "prose" -> <<TokWord("Sure"), WS>> \o j
      [] form = "extra" -> j \o <<WS>> \o j

\* texts that carry no json value at all
Degenerate ==
    {<<>>, <<WS>>, <<FENCE>>, <<FENCE, WS, FENCE>>, <<FENCE, TokWord("json"), WS, FENCE>>,
     <<TokWord("Sure")>>, <<TokWord("json")>>, <<Tok("lbrace")>>, <<Tok("rbrack")>>,
     <<Tok("lbrace"), TokStr("intent"), Tok("rbrace")>>,
     <<Tok("lbrack"), TokNum(1), Tok("comma"), Tok("rbrack")>>,
     <<Tok("lbrace"), TokStr("intent"), Tok("colon"), TokStr("a"), Tok("comma"),
       Tok("rbrace")>>}

Responses(objects) ==
    {PyNone}
    \cup {PyText(t) : t \in Degenerate}
    \cup {PyText(Wrap(f, Ser(v))) : f \in Forms, v \in objects \cup NonObjects}

(***************************************************************************)
(* classify_video (full_pipeline.py)                                       *)
(***************************************************************************)
\* ACTIONS (a reserved word of TLA+, hence the spelling)
Actions == <<"open_door", "pick_book", "pour_water", "walk_stop">>
\* IDX_TO_LABEL[k] for the 0-based class index k
IDX_TO_LABEL(k) == Actions[k + 1]
ClassIndices == 0..(Len(Actions) - 1)

MaxFrames == 2     \* most pose files in one action folder

RECURSIVE SortedSeq(_)
\* the elements of a set of integers in ascending order
SortedSeq(S) ==
    IF S = {} THEN <<>>
    ELSE LET m == CHOOSE x \in S : \A y \in S : x <= y IN <<m>> \o SortedSeq(S \ {m})

\* np.unique(frame_preds, return_counts=True)
np_unique(preds) ==
    LET u == SortedSeq(SeqRange(preds))
    IN [unique |-> u,
        counts |-> [i \in DOMAIN u |-> Cardinality({j \in DOMAIN preds : preds[j] = u[i]})]]

\* the last position holding the largest value
np_argmax_last(c) ==
    CHOOSE i \in DOMAIN c : (\A j \in DOMAIN c : c[j] <= c[i])
                            /\ (\A j \in DOMAIN c : j > i => c[j] < c[i])

\* np.argmax: the first position holding the largest value
np_argmax(c) ==
    CHOOSE i \in DOMAIN c : (\A j \in DOMAIN c : c[j] <= c[i])
                            /\ (\A j \in DOMAIN c : j < i => c[j] < c[i])

\* "int(np.argmax(counts))": the position among the counts taken for the class index
MajorityVote_positionAsClass(preds) ==
    LET uc == np_unique(preds)
        labels == {IDX_TO_LABEL(uc.unique[i]) : i \in DOMAIN uc.unique}
    IN [label |-> PyStr(IDX_TO_LABEL(np_argmax(uc.counts) - 1)),
        counts |-> [l \in labels |->
                      uc.counts[CHOOSE i \in DOMAIN uc.unique : IDX_TO_LABEL(uc.unique[i]) = l]]]

\* the majority vote over the frame predictions of a non-empty clip
MajorityVote(preds) ==
    LET uc == np_unique(preds)
        labels == {IDX_TO_LABEL(uc.unique[i]) : i \in DOMAIN uc.unique}
    IN [label |-> PyStr(IDX_TO_LABEL(uc.unique[np_argmax(uc.counts)])),
        counts |-> [l \in labels |->
                      uc.counts[CHOOSE i \in DOMAIN uc.unique : IDX_TO_LABEL(uc.unique[i]) = l]]]

\* classify_video for a folder in the given state; preds is model.predict's answer
classify_video(folder, preds) ==
    IF folder = "absent" THEN [label |-> PyNone, counts |-> <<>>, warned |-> "dir"]
    ELSE IF folder = "empty" THEN [label |-> PyNone, counts |-> <<>>, warned |-> "files"]
    ELSE [label |-> MajorityVote(preds).label, counts |-> MajorityVote(preds).counts,
          warned |-> "no"]

\* the predictions model.predict may give for a clip: one class index per frame
PredSeqs == UNION {[1..n -> ClassIndices] : n \in 1..MaxFrames}

(***************************************************************************)
(* The reasoning functions as steps: response in, returned value out       *)
(***************************************************************************)
\* llm_reasoning from the response on
SingleReturns(r) ==
    /\ raw' = r
    /\ call' = "single"
    /\ content' = _strip_code_fences(ContentOrEmpty(r))
    /\ data' = SingleData(r)
    /\ result' = normalizeSingle(r)
    /\ stage' = IF normalizeSingle(r).t = "exc" THEN "raised" ELSE "returned"

\* llm_temporal_reasoning from the response on
TemporalReturns(r) ==
    /\ raw' = r
    /\ call' = "temporal"
    /\ content' = _strip_code_fences(ContentOrEmpty(r))
    /\ data' = TemporalData(r)
    /\ result' = normalizeTemporal(r)
    /\ stage' = IF normalizeTemporal(r).t = "exc" THEN "raised" ELSE "returned"

NormIdle ==
    /\ content = <<>>
    /\ data = PyNone
    /\ result = PyNone

EncIdle ==
    /\ keypoints = PyNone
    /\ dim = 0
    /\ feature_vec = <<>>

PipeIdle ==
    /\ pc = "off"
    /\ idx = 1
    /\ pose_store = [a \in SeqRange(Actions) |-> "absent"]
    /\ frame_preds = <<>>
    /\ predicted_label = PyNone
    /\ frame_counts = <<>>
    /\ action_history = <<>>
    /\ requests = <<>>
    /\ stdout = <<>>

(***************************************************************************)
(* SpecNorm: the response post-processing alone, over all bounded responses*)
(***************************************************************************)
InitNorm ==
    /\ call \in {"single", "temporal"}
    /\ raw \in Responses(IF call = "single" THEN SingleObjects ELSE TemporalObjects)
    /\ stage = "received"
    /\ NormIdle
    /\ EncIdle
    /\ PipeIdle

NormalizeSingle ==
    /\ stage = "received"
    /\ call = "single"
    /\ SingleReturns(raw)
    /\ UNCHANGED <<pipeVars, encVars>>

NormalizeTemporal ==
    /\ stage = "received"
    /\ call = "temporal"
    /\ TemporalReturns(raw)
    /\ UNCHANGED <<pipeVars, encVars>>

NextNorm == NormalizeSingle \/ NormalizeTemporal

SpecNorm == InitNorm /\ [][NextNorm]_vars

(***************************************************************************)
(* Spec: main() of full_pipeline.py, one step per blocking call            *)
(***************************************************************************)
FolderStates == {"absent", "empty", "frames"}

\* the responses the transport hands back during a pipeline run
PipelineSingleResponses ==
    {PyText(Wrap("fenced_json", Ser(WellFormedSingle))), PyText(<<TokWord("Sure")>>)}
PipelineTemporalResponses ==
    {PyText(Ser(WellFormedTemporal)), PyText(<<>>)}

\* the loop ends one roster action early
RosterExhausted_early == idx > Len(Actions) - 1

\* "for action in ACTIONS" has run out of roster actions
RosterExhausted == idx > Len(Actions)

\* "break" where the code has "continue"
SkipTo_break(i) == Len(Actions) + 1

\* "continue": the loop goes on with the next roster action
SkipTo(i) == i + 1

Line(kind, arg) == [kind |-> kind, arg |-> arg]
Req(kind, labels) == [kind |-> kind, labels |-> labels]

\* the request llm_temporal_reasoning issues: none for an empty history
TemporalRequests(history) ==
    IF history = <<>> THEN <<>> ELSE <<Req("temporal", history)>>

Init ==
    /\ pc = "loop"
    /\ idx = 1
    /\ pose_store \in [SeqRange(Actions) -> FolderStates]
    /\ frame_preds = <<>>
    /\ predicted_label = PyNone
    /\ frame_counts = <<>>
    /\ action_history = <<>>
    /\ requests = <<>>
    /\ stdout = <<Line("banner", "")>>
    /\ raw = PyNone
    /\ call = "none"
    /\ stage = "idle"
    /\ NormIdle
    /\ EncIdle

\* one pass of the roster loop up to the reasoning call (or to "continue")
Classify ==
    /\ pc = "loop"
    /\ ~RosterExhausted
    /\ LET action == Actions[idx] IN
       \E preds \in (IF pose_store[action] = "frames" THEN PredSeqs ELSE {<<>>}) :
          LET cv == classify_video(pose_store[action], preds) IN
          /\ predicted_label' = cv.label
          /\ frame_counts' = cv.counts
          /\ IF cv.label.t = "none"
             THEN /\ stdout' = stdout \o <<Line("processing", action),
                                           Line("warning", action),
                                           Line("skipping", action)>>
                  /\ idx' = SkipTo(idx)
                  /\ pc' = "loop"
                  /\ UNCHANGED action_history
             ELSE /\ action_history' = Append(action_history, cv.label.s)
                  /\ stdout' = stdout \o <<Line("processing", action),
                                           Line("majority", cv.label.s),
                                           Line("counts", cv.label.s)>>
                  /\ pc' = "reason"
                  /\ UNCHANGED idx
    /\ UNCHANGED <<pose_store, frame_preds, requests, normVars>>
    /\ UNCHANGED encVars

\* llm_reasoning(predicted_label) returns; the object is printed
ReasonReturn ==
    /\ pc = "reason"
    /\ requests' = Append(requests, Req("single", <<predicted_label.s>>))
    /\ \E r \in PipelineSingleResponses :
          /\ SingleReturns(r)
          /\ IF normalizeSingle(r).t = "exc"
             THEN pc' = "crashed" /\ UNCHANGED <<idx, stdout>>
             ELSE /\ stdout' = Append(stdout, Line("reasoning", Actions[idx]))
                  /\ idx' = idx + 1
                  /\ pc' = "loop"
    /\ UNCHANGED <<pose_store, frame_preds, predicted_label, frame_counts,
                   action_history>>
    /\ UNCHANGED encVars

\* the transport error caught and the loop carried on
ReasonTransportError_swallowed ==
    /\ pc = "reason"
    /\ requests' = Append(requests, Req("single", <<predicted_label.s>>))
    /\ call' = "single"
    /\ stage' = "raised"
    /\ result' = PyExc("APIError")
    /\ pc' = "loop"
    /\ idx' = idx + 1
    /\ UNCHANGED <<raw, content, data, pose_store, frame_preds, predicted_label,
                   frame_counts, action_history, stdout>>
    /\ UNCHANGED encVars

\* client.chat.completions.create raises inside llm_reasoning; nothing catches it
ReasonTransportError ==
    /\ pc = "reason"
    /\ requests' = Append(requests, Req("single", <<predicted_label.s>>))
    /\ call' = "single"
    /\ stage' = "raised"
    /\ result' = PyExc("APIError")
    /\ pc' = "crashed"
    /\ UNCHANGED <<raw, content, data, idx, pose_store, frame_preds, predicted_label,
                   frame_counts, action_history, stdout>>
    /\ UNCHANGED encVars

\* the roster is exhausted and the history is empty: no temporal stage
FinishWithoutTemporal ==
    /\ pc = "loop"
    /\ RosterExhausted
    /\ action_history = <<>>
    /\ stdout' = Append(stdout, Line("completed", ""))
    /\ pc' = "done"
    /\ UNCHANGED <<idx, pose_store, frame_preds, predicted_label, frame_counts,
                   action_history, requests, normVars>>
    /\ UNCHANGED encVars

\* llm_temporal_reasoning(action_history) returns; the object is printed
TemporalReturn ==
    /\ pc = "loop"
    /\ RosterExhausted
    /\ action_history # <<>>
    /\ requests' = requests \o TemporalRequests(action_history)
    /\ \E r \in PipelineTemporalResponses :
          /\ TemporalReturns(r)
          /\ IF normalizeTemporal(r).t = "exc"
             THEN /\ pc' = "crashed"
                  /\ stdout' = Append(stdout, Line("temporal_banner", ""))
             ELSE /\ stdout' = stdout \o <<Line("temporal_banner", ""),
                                           Line("temporal", ""),
                                           Line("completed", "")>>
                  /\ pc' = "done"
    /\ UNCHANGED <<idx, pose_store, frame_preds, predicted_label, frame_counts,
                   action_history>>
    /\ UNCHANGED encVars

\* client.chat.completions.create raises inside llm_temporal_reasoning
TemporalTransportError ==
    /\ pc = "loop"
    /\ RosterExhausted
    /\ action_history # <<>>
    /\ requests' = requests \o TemporalRequests(action_history)
    /\ stdout' = Append(stdout, Line("temporal_banner", ""))
    /\ call' = "temporal"
    /\ stage' = "raised"
    /\ result' = PyExc("APIError")
    /\ pc' = "crashed"
    /\ UNCHANGED <<raw, content, data, idx, pose_store, frame_preds, predicted_label,
                   frame_counts, action_history>>
    /\ UNCHANGED encVars

Next ==
    \/ Classify
    \/ ReasonReturn
    \/ ReasonTransportError
    \/ FinishWithoutTemporal
    \/ TemporalReturn
    \/ TemporalTransportError

Spec == Init /\ [][Next]_vars

(***************************************************************************)
(* SpecVote: classify_video alone, over the frame predictions of one clip  *)
(***************************************************************************)
MaxClip == 4       \* most frames of a clip whose predictions are enumerated in full

\* the 0-based class index of a roster label
ClassIndexOf(label) == CHOOSE k \in ClassIndices : IDX_TO_LABEL(k) = label

\* ten-frame clips with seven frames of one label and three of another, in any order
SevenThreeClips(major, minor) ==
    {c \in [1..10 -> {ClassIndexOf(major), ClassIndexOf(minor)}] :
        Cardinality({i \in 1..10 : c[i] = ClassIndexOf(major)}) = 7}

\* the answers of model.predict for one clip; the empty one stands for a folder
\* without pose files
Clips ==
    UNION {[1..n -> ClassIndices] : n \in 0..MaxClip}
        \cup SevenThreeClips("open_door", "walk_stop")

InitVote ==
    /\ pc = "clip"
    /\ idx = 1
    /\ frame_preds \in Clips
    /\ pose_store = [a \in SeqRange(Actions) |->
                        IF a = Actions[1] /\ frame_preds # <<>> THEN "frames" ELSE "empty"]
    /\ predicted_label = PyNone
    /\ frame_counts = <<>>
    /\ action_history = <<>>
    /\ requests = <<>>
    /\ stdout = <<>>
    /\ raw = PyNone
    /\ call = "none"
    /\ stage = "idle"
    /\ NormIdle
    /\ EncIdle

\* classify_video(os.path.join(pose_base_dir, action)) from the folder listing on
ClassifyVideo ==
    /\ pc = "clip"
    /\ LET cv == classify_video(pose_store[Actions[idx]], frame_preds) IN
          /\ predicted_label' = cv.label
          /\ frame_counts' = cv.counts
          /\ stdout' = IF cv.warned = "no" THEN stdout
                       ELSE Append(stdout, Line("warning", Actions[idx]))
    /\ pc' = "voted"
    /\ UNCHANGED <<idx, pose_store, frame_preds, action_history, requests, normVars>>
    /\ UNCHANGED encVars

NextVote == ClassifyVideo

SpecVote == InitVote /\ [][NextVote]_vars

(***************************************************************************)
(* keypoints_to_vector (build_dataset.py) and SpecEncode                   *)
(***************************************************************************)
MaxJoints == 2     \* most [x, y, confidence] triples of a detection
MaxDim == 7        \* largest dim asked of keypoints_to_vector

\* the 32-bit float nearest to an integer of magnitude below 2^25: exact up to
\* 2^24, the nearest even integer above (a tie goes to the multiple of 4)
F32(x) ==
    LET a == IF x < 0 THEN 0 - x ELSE x
        r == IF a <= 2^24 \/ a % 2 = 0 THEN a
             ELSE IF (a - 1) % 4 = 0 THEN a - 1 ELSE a + 1
    IN IF x < 0 THEN 0 - r ELSE r

\* np.zeros(n, dtype=np.float32)
np_zeros(n) == [i \in 1..n |-> 0]

RECURSIVE Flatten(_)
\* np.array(keypoints, dtype=np.float32).reshape(-1, 3).flatten(): row-major
Flatten(rows) ==
    IF rows = <<>> THEN <<>>
    ELSE <<F32(rows[1][1]), F32(rows[1][2]), F32(rows[1][3])>> \o Flatten(Tail(rows))

\* "return flat" where the code has "return flat[:dim]"
keypoints_to_vector_untruncated(kp, d) ==
    IF kp.t = "none" THEN np_zeros(d)
    ELSE LET flat == Flatten(kp.l)
         IN IF Len(flat) >= d THEN flat
            ELSE [i \in 1..d |-> IF i <= Len(flat) THEN flat[i] ELSE 0]

keypoints_to_vector(kp, d) ==
    IF kp.t = "none" THEN np_zeros(d)
    ELSE LET flat == Flatten(kp.l)
         IN IF Len(flat) >= d THEN SubSeq(flat, 1, d)
            ELSE [i \in 1..d |-> IF i <= Len(flat) THEN flat[i] ELSE 0]

\* coordinate and confidence values as the pose files hold them; the last one is
\* not a 32-bit float
CoordValues == {0, 1, 2^24 + 1}
Triples == {<<x, y, c>> : x \in CoordValues, y \in CoordValues, c \in CoordValues}
\* data.get("keypoints", None): no person, or up to MaxJoints triples
Detections == {PyNone} \cup {PyList(l) : l \in UNION {[1..n -> Triples] : n \in 0..MaxJoints}}

InitEncode ==
    /\ pc = "encode"
    /\ keypoints \in Detections
    /\ dim \in 0..MaxDim
    /\ feature_vec = <<>>
    /\ idx = 1
    /\ pose_store = [a \in SeqRange(Actions) |-> "absent"]
    /\ frame_preds = <<>>
    /\ predicted_label = PyNone
    /\ frame_counts = <<>>
    /\ action_history = <<>>
    /\ requests = <<>>
    /\ stdout = <<>>
    /\ raw = PyNone
    /\ call = "none"
    /\ stage = "idle"
    /\ NormIdle

\* feature_vec = keypoints_to_vector(keypoints, dim)
Encode ==
    /\ pc = "encode"
    /\ feature_vec' = keypoints_to_vector(keypoints, dim)
    /\ pc' = "encoded"
    /\ UNCHANGED <<keypoints, dim, idx, pose_store, frame_preds, predicted_label,
                   frame_counts, action_history, requests, stdout, normVars>>

NextEncode == Encode

SpecEncode == InitEncode /\ [][NextEncode]_vars

(***************************************************************************)
(* Properties of the response post-processing (checked under SpecNorm)     *)
(***************************************************************************)
IsStr(x) == x.t = "str"
IsListOfStr(x) == x.t = "list" /\ \A i \in DOMAIN x.l : IsStr(x.l[i])

\* every declared field of the single-action object, with its declared type
IsSingleObject(x) ==
    /\ x.t = "dict"
    /\ DOMAIN x.d = SingleKeys
    /\ \A k \in SeqRange(StringKeys) : IsStr(x.d[k])
    /\ \A k \in SeqRange(ListKeys) : IsListOfStr(x.d[k])
    /\ x.d.environment.t = "dict"
    /\ DOMAIN x.d.environment.d = EnvKeys
    /\ IsStr(x.d.environment.d.scene_type)
    /\ IsListOfStr(x.d.environment.d.key_objects)

\* every declared field of the temporal object, with its declared type
IsTemporalObject(x) ==
    /\ x.t = "dict"
    /\ DOMAIN x.d = TemporalKeys
    /\ IsStr(x.d.overall_task)
    /\ IsStr(x.d.possible_goal)
    /\ IsListOfStr(x.d.step_roles)
    /\ IsListOfStr(x.d.future_plan)
    /\ IsListOfStr(x.d.uncertainty_notes)

Processed == stage # "received"
SingleDone == stage = "returned" /\ call = "single"
TemporalDone == stage = "returned" /\ call = "temporal"

\* json.loads raised on the fence-stripped text
ParseFailed == json_loads(content).t = "exc"
\* the parsed response, or None when there is none
Parsed == IF ParseFailed THEN PyNone ELSE json_loads(content)
\* what the response carries under key k: the value, or None
Provided(k) ==
    IF Parsed.t = "dict" /\ k \in DOMAIN Parsed.d THEN Parsed.d[k] ELSE PyNone
\* the entries the response lists under key k
ProvidedEntries(k) == IF Provided(k).t = "list" THEN Provided(k).l ELSE <<>>
\* the entries the response lists under environment.key_objects
ProvidedKeyObjects ==
    LET env == Provided("environment") IN
    IF env.t = "dict" /\ "key_objects" \in DOMAIN env.d /\ env.d.key_objects.t = "list"
    THEN env.d.key_objects.l ELSE <<>>
\* the entries that are not null, each as its string
NonNullAsStr(entries) ==
    LET kept == SelectSeq(entries, LAMBDA e : e # PyNone)
    IN [i \in DOMAIN kept |->
          IF kept[i].t = "str" THEN kept[i]
          ELSE IF kept[i].t = "int" THEN PyStr(ToString(kept[i].n))
          ELSE IF kept[i].t = "bool" THEN PyStr(IF kept[i].b THEN "True" ELSE "False")
          ELSE PyRepr(kept[i])]
IsPrefix(a, b) == Len(a) <= Len(b) /\ SubSeq(b, 1, Len(a)) = a
Suffix(b, n) == SubSeq(b, n + 1, Len(b))

\* C1: for every response text (empty, not json, truncated json, json that is no
\* object, an object with missing keys or wrongly typed values) llm_reasoning's and
\* llm_temporal_reasoning's post-processing returns without raising, and the result
\* has every declared field with its declared type.
C1_Total ==
    Processed =>
        /\ stage = "returned"
        /\ call = "single" => IsSingleObject(result)
        /\ call = "temporal" => IsTemporalObject(result)

\* a json value that is no object was returned as a schema-complete object
C1_Witness == SingleDone /\ Parsed.t = "list" /\ IsSingleObject(result)

\* the response is malformed: no json, no object, a key missing or a value mistyped
Malformed == ParseFailed \/ ~IsSingleObject(Parsed)

\* C2: on malformed text normalizeSingle returns affordances with 3 to 5 entries and
\* constraints, future_steps and target_objects with 2 to 4 entries each.
C2_Ranges ==
    (SingleDone /\ Malformed) =>
        /\ Len(result.d.affordances.l) \in 3..5
        /\ Len(result.d.constraints.l) \in 2..4
        /\ Len(result.d.future_steps.l) \in 2..4
        /\ Len(result.d.target_objects.l) \in 2..4

TemporalDefaults ==
    [overall_task |-> PyStr(""), step_roles |-> EmptyList, possible_goal |-> PyStr(""),
     future_plan |-> EmptyList, uncertainty_notes |-> EmptyList]

EmptyResponse == raw = PyStr("")

\* C3 as claimed: normalizeTemporal("") returns the default-schema object, every
\* string empty and every list empty.
C3_EmptyTextAllDefaults ==
    (call = "temporal" /\ EmptyResponse /\ Processed) =>
        (stage = "returned" /\ result = PyDict(TemporalDefaults))

\* C3 amended: normalizeTemporal("") returns without error; overall_task and
\* possible_goal are "" and step_roles and future_plan are empty, and
\* uncertainty_notes holds one entry, the empty text itself.
C3_EmptyTextKeepsOneNote ==
    (call = "temporal" /\ EmptyResponse /\ Processed) =>
        /\ stage = "returned"
        /\ result = PyDict([TemporalDefaults EXCEPT
                              !.uncertainty_notes = PyList(<<PyStr("")>>)])

C3_Witness == TemporalDone /\ EmptyResponse /\ Len(result.d.uncertainty_notes.l) = 1

\* the fields of the single-action object that are neither explanation nor backfilled
SingleOtherFieldsDefault ==
    /\ \A k \in SeqRange(StringKeys) \ {"explanation"} : result.d[k] = PyStr("")
    /\ result.d.environment = PyDict([scene_type |-> PyStr(""), key_objects |-> EmptyList])

TemporalOtherFieldsDefault ==
    \A k \in TemporalKeys \ {"uncertainty_notes"} : result.d[k] = TemporalDefaults[k]

TextKept ==
    /\ Processed => stage = "returned"
    /\ SingleDone => (result.d.explanation = PyText(content) /\ SingleOtherFieldsDefault)
    /\ TemporalDone =>
          /\ result.d.uncertainty_notes = PyList(<<PyText(content)>>)
          /\ TemporalOtherFieldsDefault

\* C4 as claimed: whenever the fence-stripped text cannot be parsed as a single json
\* object, the text is kept: explanation equals it (single), uncertainty_notes is
\* the one-entry list holding it (temporal), the other fields take their defaults.
C4_KeptWheneverNotAnObject == (Processed /\ Parsed.t # "dict") => TextKept

\* C4 amended: the text is kept whenever json.loads raises on it (it is no json
\* value at all); a text that is a json value but no object (a list, a string, a
\* number, null) is not kept: every field takes its default.
C4_KeptWhenParseFails ==
    /\ (Processed /\ ParseFailed) => TextKept
    /\ (Processed /\ ~ParseFailed /\ Parsed.t # "dict") =>
          /\ stage = "returned"
          /\ SingleDone => (result.d.explanation = PyStr("") /\ SingleOtherFieldsDefault)
          /\ TemporalDone => result = PyDict(TemporalDefaults)

C4_Witness ==
    /\ SingleDone
    /\ ParseFailed
    /\ Len(content) > 1
    /\ result.d.explanation = PyText(content)

\* the strings the response supplies under key k, nulls dropped
Supplied(k) == NonNullAsStr(ProvidedEntries(k))

\* C5 as claimed: a short list is filled only up to its minimum: k < 3 affordances
\* give exactly 3 entries (the k originals, then the first 3-k canned strings), and
\* k < 2 constraints or future_steps give exactly 2; a list at its minimum is kept.
C5_FilledToMinimum ==
    SingleDone =>
        /\ result.d.affordances.l =
              Supplied("affordances")
              \o SubSeq(CannedAffordances.l, 1, 3 - Min(3, Len(Supplied("affordances"))))
        /\ result.d.constraints.l =
              Supplied("constraints")
              \o SubSeq(CannedConstraints.l, 1, 2 - Min(2, Len(Supplied("constraints"))))
        /\ result.d.future_steps.l =
              Supplied("future_steps")
              \o SubSeq(CannedFutureSteps.l, 1, 2 - Min(2, Len(Supplied("future_steps"))))

\* C5 amended: a short list receives every canned string of its field: k < 3
\* affordances give k + 3 entries (the k originals, then all three canned strings, in
\* fixed order; never more than 5, so nothing is cut), k < 2 constraints or
\* future_steps give k + 2 entries; a list that meets its minimum is not backfilled.
C5_AllCannedAppended ==
    SingleDone =>
        /\ result.d.affordances.l =
              IF Len(Supplied("affordances")) < 3
              THEN Supplied("affordances") \o CannedAffordances.l
              ELSE Supplied("affordances")
        /\ result.d.constraints.l =
              IF Len(Supplied("constraints")) < 2
              THEN Supplied("constraints") \o CannedConstraints.l
              ELSE Supplied("constraints")
        /\ result.d.future_steps.l =
              IF Len(Supplied("future_steps")) < 2
              THEN Supplied("future_steps") \o CannedFutureSteps.l
              ELSE Supplied("future_steps")

\* two supplied affordances came back as five entries
C5_Witness ==
    /\ SingleDone
    /\ Len(Supplied("affordances")) = 2
    /\ Len(result.d.affordances.l) = 5

SuppliedKeyObjects == NonNullAsStr(ProvidedKeyObjects)

\* C6: with fewer than 2 target_objects supplied, the result is the supplied ones,
\* then entries borrowed from environment.key_objects in order, then, if still
\* shorter than 2, canned placeholders; it has at least 2 and at most 4 entries.
C6_BorrowThenCanned ==
    (SingleDone /\ Len(Supplied("target_objects")) < 2) =>
        LET borrowed == Supplied("target_objects") \o SuppliedKeyObjects
            filled == IF Len(borrowed) < 2 THEN borrowed \o CannedTargets.l ELSE borrowed
        IN /\ result.d.target_objects.l = SubSeq(filled, 1, Min(4, Len(filled)))
           /\ Len(result.d.target_objects.l) \in 2..4

\* the canned strings of list field k
Canned(k) ==
    CASE k = "affordances" -> CannedAffordances.l
      [] k = "constraints" -> CannedConstraints.l
      [] k = "future_steps" -> CannedFutureSteps.l
      [] k = "target_objects" -> CannedTargets.l

\* the entries that may follow the response's own in list field k
Backfill(k) ==
    SeqRange(Canned(k))
    \cup (IF k = "target_objects" THEN SeqRange(SuppliedKeyObjects) ELSE {})

\* str() of one entry of a response list
EntryAsStr(e) == IF e = PyNone THEN PyStr("None") ELSE NonNullAsStr(<<e>>)[1]

\* C7 as claimed: for each of the four list fields, every entry the response lists
\* appears in the output list, in its original order and ahead of every canned or
\* borrowed entry (an entry that is no string appears as its string).
C7_EveryEntryKept ==
    SingleDone =>
        \A k \in SeqRange(ListKeys) :
            LET given == ProvidedEntries(k) IN
            IsPrefix([i \in DOMAIN given |-> EntryAsStr(given[i])], result.d[k].l)

\* C7 amended: every entry the response lists that is not null appears in the output
\* list (as its string), in its original order and ahead of every canned or borrowed
\* entry; null entries are dropped. A well-formed response with 4 affordances yields
\* exactly those 4.
C7_NonNullEntriesKept ==
    SingleDone =>
        /\ \A k \in SeqRange(ListKeys) :
              /\ IsPrefix(Supplied(k), result.d[k].l)
              /\ SeqRange(Suffix(result.d[k].l, Len(Supplied(k)))) \subseteq Backfill(k)
        /\ (Parsed = WellFormedSingle) => result.d.affordances = StrList("affordances", 4)

\* a constraint supplied next to a null came back first, ahead of the canned two
C7_Witness ==
    /\ SingleDone
    /\ Len(ProvidedEntries("constraints")) = 2
    /\ Len(Supplied("constraints")) = 1
    /\ result.d.constraints.l = Supplied("constraints") \o CannedConstraints.l

(***************************************************************************)
(* Properties of the pipeline run (checked under Spec)                     *)
(***************************************************************************)
\* how many of the first n roster actions have pose files
FramesAmong(n) ==
    Cardinality({j \in 1..Min(n, Len(Actions)) : pose_store[Actions[j]] = "frames"})

\* the single-action requests for a history, in its order
SingleRequests(h) == [i \in 1..Len(h) |-> Req("single", <<h[i]>>)]

TemporalIssued == \E i \in DOMAIN requests : requests[i].kind = "temporal"

\* C8: requests are issued in a fixed order: one single-action request per classified
\* roster action, in roster order, carrying that clip's majority label and issued
\* before the next roster action is processed; then, only once the roster is
\* exhausted, exactly one temporal request over the whole history if it is not empty,
\* and none if it is empty.
C8_RequestOrder ==
    LET h == action_history
        singles == SingleRequests(h)
        temporal == IF h = <<>> THEN <<>> ELSE <<Req("temporal", h)>>
    IN /\ pc = "reason" =>
            /\ h # <<>>
            /\ h[Len(h)] = predicted_label.s
            /\ requests = SubSeq(singles, 1, Len(h) - 1)
            /\ Len(h) = FramesAmong(idx)
       /\ pc = "loop" => (requests = singles /\ Len(h) = FramesAmong(idx - 1))
       /\ pc = "done" => (requests = singles \o temporal /\ Len(h) = FramesAmong(Len(Actions)))
       /\ pc = "crashed" => requests \in {singles, singles \o temporal}
       /\ TemporalIssued => (h # <<>> /\ Len(h) = FramesAmong(Len(Actions)))

\* a finished run issued two single-action requests with different labels and then
\* the temporal request
C8_Witness ==
    /\ pc = "done"
    /\ Len(requests) = 3
    /\ requests[1].labels # requests[2].labels
    /\ requests[3] = Req("temporal", action_history)

\* how many roster actions classify_video has been called for
Classified ==
    IF pc = "reason" \/ (pc = "crashed" /\ call = "single") THEN idx ELSE idx - 1

\* C9: a roster action whose pose folder is absent (or holds no pose files) gets
\* (None, {}) from classify_video and does not abort the run: it adds nothing to the
\* history or to the per-action reasoning output, the later roster actions are still
\* processed, the run completes, and temporal reasoning still runs over the history
\* that remains, if any.
C9_MissingFolderSkipped ==
    /\ \A i \in DOMAIN Actions :
          pose_store[Actions[i]] # "frames" =>
             /\ Line("reasoning", Actions[i]) \notin SeqRange(stdout)
             /\ idx > i => Line("skipping", Actions[i]) \in SeqRange(stdout)
             /\ (idx = i + 1 /\ pc = "loop") =>
                   (predicted_label = PyNone /\ frame_counts = <<>>)
    /\ Len(action_history) = FramesAmong(Classified)
    /\ pc = "crashed" => (stage = "raised" /\ result = PyExc("APIError"))
    /\ (pc = "loop" /\ ~RosterExhausted) => ENABLED Classify
    /\ pc = "done" =>
          /\ \A i \in DOMAIN Actions : Line("processing", Actions[i]) \in SeqRange(stdout)
          /\ Line("completed", "") \in SeqRange(stdout)
          /\ Len(action_history) = FramesAmong(Len(Actions))
          /\ action_history # <<>> =>
                Req("temporal", action_history) \in SeqRange(requests)

\* a run with one absent folder completed, with temporal reasoning over the other three
C9_Witness ==
    /\ pc = "done"
    /\ pose_store["pick_book"] = "absent"
    /\ \A a \in SeqRange(Actions) \ {"pick_book"} : pose_store[a] = "frames"
    /\ Len(action_history) = 3
    /\ Req("temporal", action_history) \in SeqRange(requests)
    /\ Line("completed", "") \in SeqRange(stdout)

\* C10: a transport failure of a reasoning call is neither retried nor recovered: it
\* propagates and halts the run; after it no roster action is classified, no request
\* is issued and the run never reports successful completion.
C10_TransportFailureHalts ==
    /\ [](stage = "raised" =>
            /\ pc = "crashed"
            /\ result = PyExc("APIError")
            /\ Line("completed", "") \notin SeqRange(stdout))
    /\ [][stage = "raised" => UNCHANGED vars]_vars

\* the second roster action's reasoning call failed with later folders still waiting
C10_Witness ==
    /\ pc = "crashed"
    /\ call = "single"
    /\ idx = 2
    /\ Len(requests) = 2
    /\ pose_store[Actions[3]] = "frames"

(***************************************************************************)
(* Properties of classify_video (checked under SpecVote)                   *)
(***************************************************************************)
Voted == pc = "voted" /\ frame_preds # <<>>
FramesOf(label) == Cardinality({i \in DOMAIN frame_preds : IDX_TO_LABEL(frame_preds[i]) = label})
PredictedLabels == {IDX_TO_LABEL(frame_preds[i]) : i \in DOMAIN frame_preds}
RECURSIVE SumOver(_, _)
SumOver(f, S) == IF S = {} THEN 0 ELSE LET x == CHOOSE y \in S : TRUE IN f[x] + SumOver(f, S \ {x})

\* C11: for a non-empty clip of N frames classify_video returns a mapping whose
\* keys are exactly the labels predicted for at least one frame, each with the
\* number of frames predicted as it, the counts adding up to N, and a label
\* whose count is the largest of the mapping; N frames of one label give that
\* label with {label: N}; seven open_door and three walk_stop frames give
\* open_door with {open_door: 7, walk_stop: 3}.
C11_CountsAndMajority ==
    Voted =>
        /\ DOMAIN frame_counts = PredictedLabels
        /\ \A l \in DOMAIN frame_counts : frame_counts[l] = FramesOf(l) /\ frame_counts[l] >= 1
        /\ SumOver(frame_counts, DOMAIN frame_counts) = Len(frame_preds)
        /\ predicted_label.t = "str"
        /\ predicted_label.s \in DOMAIN frame_counts
        /\ \A l \in DOMAIN frame_counts : frame_counts[l] <= frame_counts[predicted_label.s]
        /\ (\A l \in SeqRange(Actions) :
                PredictedLabels = {l} =>
                    /\ predicted_label = PyStr(l)
                    /\ frame_counts = [k \in {l} |-> Len(frame_preds)])
        /\ (frame_preds \in SevenThreeClips("open_door", "walk_stop") =>
                /\ predicted_label = PyStr("open_door")
                /\ frame_counts = [k \in {"open_door", "walk_stop"} |->
                                      IF k = "open_door" THEN 7 ELSE 3])

\* a seven-to-three clip has been classified, with the minority label in front
C11_Witness ==
    /\ Voted
    /\ frame_preds \in SevenThreeClips("open_door", "walk_stop")
    /\ IDX_TO_LABEL(frame_preds[1]) = "walk_stop"
    /\ predicted_label = PyStr("open_door")
    /\ DOMAIN frame_counts = {"open_door", "walk_stop"}

\* the labels sharing the largest frame count of the classified clip
TiedLabels == {l \in PredictedLabels : \A m \in PredictedLabels : FramesOf(m) <= FramesOf(l)}
\* the clips holding the same frame predictions as c, in any order
Reorderings(c) ==
    {d \in Clips : Len(d) = Len(c)
                   /\ \A k \in ClassIndices :
                         Cardinality({i \in DOMAIN d : d[i] = k})
                             = Cardinality({i \in DOMAIN c : c[i] = k})}

\* C13: when several labels tie for the largest count, classify_video returns
\* the tied label with the smallest roster index, and the returned label and
\* counts are the same for every order of the same frame predictions.
C13_TieToSmallestIndex ==
    Voted =>
        /\ predicted_label.t = "str"
        /\ predicted_label.s \in TiedLabels
        /\ \A l \in TiedLabels : ClassIndexOf(predicted_label.s) <= ClassIndexOf(l)
        /\ \A d \in Reorderings(frame_preds) :
              /\ classify_video("frames", d).label = predicted_label
              /\ classify_video("frames", d).counts = frame_counts

\* a clip whose first frames carry the tied label of the larger index
C13_Witness ==
    /\ Voted
    /\ Cardinality(TiedLabels) >= 2
    /\ \E l \in TiedLabels : l # predicted_label.s /\ IDX_TO_LABEL(frame_preds[1]) = l
    /\ \A l \in TiedLabels : ClassIndexOf(predicted_label.s) <= ClassIndexOf(l)
    /\ Cardinality(Reorderings(frame_preds)) >= 2

(***************************************************************************)
(* Properties of keypoints_to_vector (checked under SpecEncode)            *)
(***************************************************************************)
Encoded == pc = "encoded"
\* the row-major flattened triples of the detection, as 32-bit floats
Flattened == Flatten(keypoints.l)

\* C12: keypoints_to_vector returns a vector of exactly dim values for every
\* detection and every dim >= 0: all zeros for no detection; the first dim
\* flattened values, unchanged, when the detection has at least dim values;
\* otherwise the flattened values in front, followed by zeros.
C12_LengthIsDim ==
    Encoded =>
        /\ Len(feature_vec) = dim
        /\ keypoints = PyNone => \A i \in 1..dim : feature_vec[i] = 0
        /\ (keypoints # PyNone /\ Len(Flattened) >= dim) =>
               \A i \in 1..dim : feature_vec[i] = Flattened[i]
        /\ (keypoints # PyNone /\ Len(Flattened) < dim) =>
               /\ \A i \in 1..Len(Flattened) : feature_vec[i] = Flattened[i]
               /\ \A i \in (Len(Flattened) + 1)..dim : feature_vec[i] = 0

\* two joints with non-zero values cut to four values
C12_Witness ==
    /\ Encoded
    /\ keypoints # PyNone
    /\ Len(Flattened) = 6
    /\ dim = 4
    /\ feature_vec = <<1, 1, 1, 1>>

(***************************************************************************)
(* Idempotence of the single-action normalizer (checked under SpecNorm)    *)
(***************************************************************************)
\* C14: normalizing an already normalized single-action object changes
\* nothing: _normalize_single_action_json applied to its own result gives
\* that result again, so no backfill adds entries the second time.
C14_Idempotent ==
    SingleDone => _normalize_single_action_json(result) = result
====
